---- MODULE Spec2Model ----
(***************************************************************************)
(* Axis layout engine of owid-grapher: the AxisBox domain animation, the   *)
(* tick collision pass of AbstractAxis and the ScaleSelector toggle.       *)
(*                                                                         *)
(* Numbers of the program are IEEE doubles; the model computes with exact  *)
(* rationals <<n, d>> (d > 0, lowest terms), so that interpolated domains  *)
(* and animation progress are compared exactly.                            *)
(***************************************************************************)
EXTENDS Integers, Sequences, FiniteSets, TLC

VARIABLES
    \* ---- AxisBox and its host (animation) ----
    xDomain,        \* props.xAxisView.domain, the watched input
    yDomain,        \* props.yAxisView.domain, the watched input
    xScaleType,     \* props.xAxisView.scaleType
    yScaleType,     \* props.yAxisView.scaleType
    targetXDomain,
    targetYDomain,
    prevXDomain,
    prevYDomain,
    animProgress,   \* Undefined or a rational
    frameStart,     \* Undefined or a timestamp (as a rational)
    reactionActive, \* the reaction of setupAnimation is registered
    rafQueue,       \* requestAnimationFrame callbacks registered for the next frame
    running,        \* callbacks of the frame being delivered that have not run yet
    now,            \* timestamp of the latest frame delivered
    mounted,        \* lifecycle of the AxisBoxView: "no", "mounted", "unmounted"
    changes,        \* number of input domain changes so far
    \* ---- AbstractAxis (ticks) ----
    axis,           \* the axis under evaluation: orientation, scale, label, candidates
    placements,     \* tickPlacements, isHidden flags mutated in place by ticks
    shown,          \* the list last returned by ticks
    hideLog,        \* the collisions of the last pass: [kept |-> i, hidden |-> j]
    evals,          \* number of evaluations of ticks so far
    \* ---- ScaleSelector ----
    scaleType,              \* scaleTypeConfig.scaleType
    scaleTypeOptions,       \* scaleTypeConfig.scaleTypeOptions
    hasOnScaleTypeChange,   \* props.onScaleTypeChange is supplied
    hasUpdateChartScaleType,\* scaleTypeConfig.updateChartScaleType is supplied
    onScaleTypeChangeCalls, \* values passed to props.onScaleTypeChange
    updateChartScaleTypeCalls, \* values passed to scaleTypeConfig.updateChartScaleType
    startScaleType,         \* scaleType before the first click
    clicks,                 \* number of clicks so far
    \* ---- AxisRuntime ----
    runtime,        \* the observable fields: min, max, scaleType, canChangeScaleType
    toSpecArg,      \* defaultDomain of the last call of toSpec
    axisSpec,       \* the AxisSpec last returned by toSpec
    outsideArg,     \* value of the last call of isOutsideDomain
    outside,        \* the boolean last returned by isOutsideDomain
    \* ---- AxisBox layout ----
    layoutProps,    \* props.bounds, the axis labels and the formatted tick labels
    layout          \* innerBounds and the axes laid out by the last render

animVars == <<xDomain, yDomain, xScaleType, yScaleType, targetXDomain, targetYDomain,
              prevXDomain, prevYDomain, animProgress, frameStart, reactionActive,
              rafQueue, running, now, mounted, changes>>

tickVars == <<axis, placements, shown, hideLog, evals>>

selectorVars == <<scaleType, scaleTypeOptions, hasOnScaleTypeChange, hasUpdateChartScaleType,
                  onScaleTypeChangeCalls, updateChartScaleTypeCalls, startScaleType, clicks>>

runtimeVars == <<runtime, toSpecArg, axisSpec, outsideArg, outside>>

layoutVars == <<layoutProps, layout>>

vars == <<animVars, tickVars, selectorVars, runtimeVars, layoutVars>>

\* undefined in a field that holds a number otherwise (numbers are pairs)
Undefined == <<>>

\* ScaleType of charts/core/ChartConstants
ScaleTypes == {"linear", "log"}

(***************************************************************************)
(* Bounds of the model                                                     *)
(***************************************************************************)
MaxTime == 1000
MaxChanges == 2

(***************************************************************************)
(* Exact rational arithmetic standing for the program's number type        *)
(***************************************************************************)
Abs(a) == IF a < 0 THEN -a ELSE a

RECURSIVE GCD(_, _)
GCD(a, b) == IF b = 0 THEN a ELSE GCD(b, a % b)

Rat(n, d) ==
    LET g == GCD(Abs(n), Abs(d))
        s == IF d < 0 THEN -1 ELSE 1
    IN  <<(s * n) \div g, (s * d) \div g>>

Num(i) == <<i, 1>>

RAdd(a, b) == Rat(a[1] * b[2] + b[1] * a[2], a[2] * b[2])
RSub(a, b) == Rat(a[1] * b[2] - b[1] * a[2], a[2] * b[2])
RMul(a, b) == Rat(a[1] * b[1], a[2] * b[2])
RDiv(a, b) == Rat(a[1] * b[2], a[2] * b[1])
RLt(a, b) == a[1] * b[2] < b[1] * a[2]
RLe(a, b) == a[1] * b[2] <= b[1] * a[2]
RMin(a, b) == IF RLe(a, b) THEN a ELSE b

Zero == Num(0)
One == Num(1)

Dom(lo, hi) == <<Num(lo), Num(hi)>>

(***************************************************************************)
(* AxisBox: current domains                                                *)
(***************************************************************************)

\* easedProgress with the log substitute applied whatever the scale type
easedProgressAnyScale(progress, type) ==
    IF progress # Zero THEN progress ELSE Rat(1, 100)

\* the interpolation factor of the lower bound:
\* animProgress ? animProgress : scaleType === log ? 0.01 : 0
easedProgress(progress, type) ==
    IF progress # Zero THEN progress
    ELSE IF type = "log" THEN Rat(1, 100) ELSE Zero

\* [prevMin + (targetMin - prevMin) * progress, prevMax + (targetMax - prevMax) * animProgress]
interpolate(prev, target, progress, type) ==
    << RAdd(prev[1], RMul(RSub(target[1], prev[1]), easedProgress(progress, type))),
       RAdd(prev[2], RMul(RSub(target[2], prev[2]), progress)) >>

currentYDomain ==
    IF animProgress = Undefined THEN yDomain
    ELSE interpolate(prevYDomain, targetYDomain, animProgress, yScaleType)

currentXDomain ==
    IF animProgress = Undefined THEN xDomain
    ELSE interpolate(prevXDomain, targetXDomain, animProgress, xScaleType)

(***************************************************************************)
(* The host's animation clock: requestAnimationFrame                       *)
(***************************************************************************)

\* every callback registered before a frame runs in that frame, in registration
\* order and with the frame's timestamp; a callback registered while a frame is
\* being delivered runs in the next frame
FrameGaps == {100, 150, 300}

Batch == IF running = <<>> THEN rafQueue ELSE running
NextFrameQueue == IF running = <<>> THEN <<>> ELSE rafQueue
Timestamps ==
    IF running = <<>> THEN {t \in {now + g : g \in FrameGaps} : t <= MaxTime}
    ELSE {now}

CountOf(q, cb) == Cardinality({i \in 1..Len(q) : q[i] = cb})

\* frame callbacks of the AxisBox that are scheduled and have not run
PendingFrames == CountOf(rafQueue, "frame") + CountOf(running, "frame")

(***************************************************************************)
(* AxisBox: animation state machine                                        *)
(***************************************************************************)

\* domains the chart can hand to the AxisBox for its two axes
XInputDomains == {Dom(1, 100), Dom(1, 500)}
YInputDomains == {Dom(2, 10), Dom(5, 20)}

\* the constant of frame(): (timestamp - frameStart) / 300
AnimationDuration == 300

\* AxisBoxView.componentDidMount: requestAnimationFrame(this.props.axisBox.setupAnimation)
\* An AxisBox is rendered by one AxisBoxView, which mounts once.
componentDidMount ==
    /\ mounted = "no"
    /\ running = <<>>
    /\ mounted' = "mounted"
    /\ rafQueue' = Append(rafQueue, "setupAnimation")
    /\ UNCHANGED <<xDomain, yDomain, xScaleType, yScaleType, targetXDomain, targetYDomain,
                   prevXDomain, prevYDomain, animProgress, frameStart, reactionActive,
                   running, now, changes>>
    /\ UNCHANGED <<tickVars, selectorVars, runtimeVars, layoutVars>>

\* setupAnimation leaving the placeholder targets in place
setupAnimationKeepingPlaceholders ==
    \E timestamp \in Timestamps :
        /\ Batch # <<>>
        /\ Head(Batch) = "setupAnimation"
        /\ now' = timestamp
        /\ running' = Tail(Batch)
        /\ rafQueue' = NextFrameQueue
        /\ animProgress' = One
        /\ reactionActive' = TRUE
        /\ UNCHANGED <<xDomain, yDomain, xScaleType, yScaleType, prevXDomain, prevYDomain,
                       targetXDomain, targetYDomain, frameStart, mounted, changes>>
        /\ UNCHANGED <<tickVars, selectorVars, runtimeVars, layoutVars>>

\* AxisBox.setupAnimation, run by the host as a frame callback
setupAnimation ==
    \E timestamp \in Timestamps :
        /\ Batch # <<>>
        /\ Head(Batch) = "setupAnimation"
        /\ now' = timestamp
        /\ running' = Tail(Batch)
        /\ rafQueue' = NextFrameQueue
        /\ targetYDomain' = yDomain
        /\ targetXDomain' = xDomain
        /\ animProgress' = One
        /\ reactionActive' = TRUE
        /\ UNCHANGED <<xDomain, yDomain, xScaleType, yScaleType, prevXDomain, prevYDomain,
                       frameStart, mounted, changes>>
        /\ UNCHANGED <<tickVars, selectorVars, runtimeVars, layoutVars>>

\* reaction restarting from the old target instead of the rendered domain
reactionFromTarget(newX, newY) ==
    /\ prevXDomain' = targetXDomain
    /\ prevYDomain' = targetYDomain
    /\ targetYDomain' = newY
    /\ targetXDomain' = newX
    /\ animProgress' = Zero
    /\ rafQueue' = Append(rafQueue, "frame")

\* the effect of the reaction registered by setupAnimation, run when the watched
\* domains have changed to newX / newY.  currentYDomain is read after prevXDomain
\* is assigned, but depends on no x field.
reaction(newX, newY) ==
    /\ prevXDomain' = currentXDomain
    /\ prevYDomain' = currentYDomain
    /\ targetYDomain' = newY
    /\ targetXDomain' = newX
    /\ animProgress' = Zero
    /\ rafQueue' = Append(rafQueue, "frame")

\* the chart replaces the input domains (between two frames); the reaction, once
\* registered, runs synchronously with the change
DomainChange ==
    \E newX \in XInputDomains, newY \in YInputDomains :
        /\ <<newX, newY>> # <<xDomain, yDomain>>
        /\ running = <<>>
        /\ changes < MaxChanges
        /\ changes' = changes + 1
        /\ xDomain' = newX
        /\ yDomain' = newY
        /\ IF reactionActive
           THEN reaction(newX, newY)
           ELSE UNCHANGED <<prevXDomain, prevYDomain, targetYDomain, targetXDomain,
                            animProgress, rafQueue>>
        /\ UNCHANGED <<xScaleType, yScaleType, frameStart, reactionActive, running, now,
                       mounted>>
        /\ UNCHANGED <<tickVars, selectorVars, runtimeVars, layoutVars>>

\* the progress of frame without the cap at 1
frameProgressUncapped(progress, start, timestamp) ==
    RAdd(progress, RDiv(RSub(Num(timestamp), start), Num(AnimationDuration)))

\* frame measuring the elapsed time from its own timestamp on every call
frameStartAtTimestamp(start, timestamp) == Num(timestamp)

\* if (!this.frameStart) this.frameStart = timestamp
frameStartAt(start, timestamp) ==
    IF start = Undefined \/ start = Zero THEN Num(timestamp) ELSE start

\* Math.min(1, this.animProgress + (timestamp - this.frameStart) / 300)
frameProgress(progress, start, timestamp) ==
    RMin(One, RAdd(progress, RDiv(RSub(Num(timestamp), start), Num(AnimationDuration))))

\* frame leaving frameStart in place when the tween ends
frameKeepingFrameStart ==
    \E timestamp \in Timestamps :
        /\ Batch # <<>>
        /\ Head(Batch) = "frame"
        /\ now' = timestamp
        /\ running' = Tail(Batch)
        /\ IF animProgress = Undefined
           THEN /\ rafQueue' = NextFrameQueue
                /\ UNCHANGED <<animProgress, frameStart>>
           ELSE LET start == frameStartAt(frameStart, timestamp)
                    progress == frameProgress(animProgress, start, timestamp)
                IN  /\ animProgress' = progress
                    /\ frameStart' = start
                    /\ IF RLt(progress, One)
                       THEN rafQueue' = Append(NextFrameQueue, "frame")
                       ELSE rafQueue' = NextFrameQueue
        /\ UNCHANGED <<xDomain, yDomain, xScaleType, yScaleType, targetXDomain,
                       targetYDomain, prevXDomain, prevYDomain, reactionActive, mounted,
                       changes>>
        /\ UNCHANGED <<tickVars, selectorVars, runtimeVars, layoutVars>>

\* AxisBox.frame, run by the host as a frame callback
frame ==
    \E timestamp \in Timestamps :
        /\ Batch # <<>>
        /\ Head(Batch) = "frame"
        /\ now' = timestamp
        /\ running' = Tail(Batch)
        /\ IF animProgress = Undefined
           THEN /\ rafQueue' = NextFrameQueue
                /\ UNCHANGED <<animProgress, frameStart>>
           ELSE LET start == frameStartAt(frameStart, timestamp)
                    progress == frameProgress(animProgress, start, timestamp)
                IN  /\ animProgress' = progress
                    /\ IF RLt(progress, One)
                       THEN /\ rafQueue' = Append(NextFrameQueue, "frame")
                            /\ frameStart' = start
                       ELSE /\ rafQueue' = NextFrameQueue
                            /\ frameStart' = Undefined
        /\ UNCHANGED <<xDomain, yDomain, xScaleType, yScaleType, targetXDomain,
                       targetYDomain, prevXDomain, prevYDomain, reactionActive, mounted,
                       changes>>
        /\ UNCHANGED <<tickVars, selectorVars, runtimeVars, layoutVars>>

\* the AxisBoxView is unmounted; the class has no componentWillUnmount, the
\* reaction is never disposed and no frame callback is cancelled
Unmount ==
    /\ mounted = "mounted"
    /\ running = <<>>
    /\ mounted' = "unmounted"
    /\ UNCHANGED <<xDomain, yDomain, xScaleType, yScaleType, targetXDomain, targetYDomain,
                   prevXDomain, prevYDomain, animProgress, frameStart, reactionActive,
                   rafQueue, running, now, changes>>
    /\ UNCHANGED <<tickVars, selectorVars, runtimeVars, layoutVars>>

(***************************************************************************)
(* Bounds (charts/utils/Bounds): rectangles {x, y, width, height}          *)
(***************************************************************************)
MakeBounds(x, y, width, height) == [x |-> x, y |-> y, width |-> width, height |-> height]

Left(b) == b.x
Right(b) == RAdd(b.x, b.width)
Top(b) == b.y
Bottom(b) == RAdd(b.y, b.height)

\* bounds.extend({x, y}): the same size at another origin
Extend(b, origin) == MakeBounds(origin.x, origin.y, b.width, b.height)

\* bounds.intersects(other): the closed rectangles share a point
Intersects(b, other) ==
    ~ \/ RLt(Right(b), Left(other))
      \/ RLt(Right(other), Left(b))
      \/ RLt(Bottom(b), Top(other))
      \/ RLt(Bottom(other), Top(b))

\* bounds.padWidth(delta): delta is taken off each horizontal side, a negative
\* delta shrinks the bounds by its amount
PadWidth(b, delta) ==
    MakeBounds(RSub(b.x, Num(delta)), b.y, RAdd(b.width, Num(2 * delta)), b.height)

\* Bounds.forText(text, {fontSize}): the measured box of a label
ForText(textWidth, textHeight) == MakeBounds(Zero, Zero, Num(textWidth), Num(textHeight))

(***************************************************************************)
(* The scale of an axis (AxisView / AxisScale)                             *)
(***************************************************************************)
RECURSIVE Log10(_)
\* the decimal logarithm of a power of ten
Log10(v) == IF v[1] <= 1 THEN 0 ELSE 1 + Log10(Rat(v[1], 10 * v[2]))

\* scale.place(value): linear in the value, or in its logarithm on a log scale
place(scale, value) ==
    LET lo == IF scale.scaleType = "log" THEN Num(Log10(scale.domain[1])) ELSE scale.domain[1]
        hi == IF scale.scaleType = "log" THEN Num(Log10(scale.domain[2])) ELSE scale.domain[2]
        v  == IF scale.scaleType = "log" THEN Num(Log10(value)) ELSE value
    IN  RAdd(scale.range[1],
             RMul(RDiv(RSub(v, lo), RSub(hi, lo)), RSub(scale.range[2], scale.range[1])))

(***************************************************************************)
(* AbstractAxis, VerticalAxis, HorizontalAxis                              *)
(***************************************************************************)
MaxTicks == 3
MaxTickValue == 3
MaxPriority == 2
MaxEvals == 2

\* HorizontalAxis.labelPadding
labelPadding == 5

\* the padding of HorizontalAxis.doIntersect
intersectPadding == -5

\* labelOffset: label ? label.height + 10 : 0 (vertical),
\*              label ? label.height + labelPadding * 2 : 0 (horizontal)
labelOffset(a) ==
    IF a.labelHeight = Undefined THEN Zero
    ELSE IF a.orient = "vertical" THEN RAdd(a.labelHeight, Num(10))
    ELSE RAdd(a.labelHeight, Num(labelPadding * 2))

\* value % 1 === 0
IsWhole(v) == v[2] = 1

\* lodash uniq: keeps the first of the entries that are the same object
RECURSIVE uniq(_)
uniq(ts) ==
    IF ts = <<>> THEN <<>>
    ELSE LET front == uniq(SubSeq(ts, 1, Len(ts) - 1))
             last == ts[Len(ts)]
         IN  IF \E i \in 1..Len(front) : front[i].ref = last.ref
             THEN front ELSE Append(front, last)

\* AbstractAxis.baseTicks: scale.getTickValues().filter(tick => !tick.gridLineOnly)
abstractBaseTicks(a) == SelectSeq(a.tickValues, LAMBDA t : ~t.gridLineOnly)

\* HorizontalAxis.baseTicks: the domain's start and end are added when whole
horizontalBaseTicks(a) ==
    LET startEndPrio == IF a.scaleType = "log" THEN 2 ELSE 1
        t0 == abstractBaseTicks(a)
        t1 == IF IsWhole(a.domain[1])
              THEN << [value |-> a.domain[1], priority |-> startEndPrio,
                       isFirstOrLastTick |-> TRUE, gridLineOnly |-> FALSE,
                       textWidth |-> a.endWidth, ref |-> 0] >> \o t0
              ELSE t0
        t2 == IF IsWhole(a.domain[2]) /\ a.hideFractionalTicks
              THEN t1 \o << [value |-> a.domain[2], priority |-> startEndPrio,
                             isFirstOrLastTick |-> TRUE, gridLineOnly |-> FALSE,
                             textWidth |-> a.endWidth, ref |-> Len(a.tickValues) + 1] >>
              ELSE t1
    IN  uniq(t2)

baseTicks(a) == IF a.orient = "horizontal" THEN horizontalBaseTicks(a) ELSE abstractBaseTicks(a)

\* lodash sortBy(ticks, tick => tick.priority): stable, ascending
RECURSIVE sortByPriority(_)
sortByPriority(ts) ==
    IF ts = <<>> THEN <<>>
    ELSE LET front == sortByPriority(SubSeq(ts, 1, Len(ts) - 1))
             last == ts[Len(ts)]
             k == Cardinality({i \in 1..Len(front) : front[i].priority <= last.priority})
         IN  SubSeq(front, 1, k) \o <<last>> \o SubSeq(front, k + 1, Len(front))

\* lodash sortBy(values): ascending
RECURSIVE sortBy(_)
sortBy(vs) ==
    IF vs = <<>> THEN <<>>
    ELSE LET front == sortBy(SubSeq(vs, 1, Len(vs) - 1))
             last == vs[Len(vs)]
             k == Cardinality({i \in 1..Len(front) : RLe(front[i], last)})
         IN  SubSeq(front, 1, k) \o <<last>> \o SubSeq(front, k + 1, Len(front))

\* VerticalAxis.placeTick / HorizontalAxis.placeTick
placeTick(a, tickValue, bounds) ==
    IF a.orient = "vertical"
    THEN [x |-> One, y |-> place(a, tickValue)]
    ELSE [x |-> RSub(place(a, tickValue), RDiv(bounds.width, Num(2))),
          y |-> RSub(Bottom(bounds), labelOffset(a))]

\* AbstractAxis.tickPlacements: coordinates for ticks, sorted by priority
tickPlacements(a) ==
    LET sorted == sortByPriority(baseTicks(a))
    IN  [i \in 1..Len(sorted) |->
            LET bounds == ForText(sorted[i].textWidth, a.textHeight)
            IN  [tick |-> sorted[i].value,
                 bounds |-> Extend(bounds, placeTick(a, sorted[i].value, bounds)),
                 isHidden |-> FALSE]]

\* AbstractAxis.doIntersect / HorizontalAxis.doIntersect
doIntersect(orient, bounds, bounds2) ==
    IF orient = "horizontal"
    THEN Intersects(bounds, PadWidth(bounds2, intersectPadding))
    ELSE Intersects(bounds, bounds2)

\* comparePair hiding the earlier placement of a colliding pair
comparePairHideFirst(st, orient, i, j) ==
    IF st.pl[i].isHidden \/ st.pl[j].isHidden THEN st
    ELSE IF doIntersect(orient, st.pl[i].bounds, st.pl[j].bounds)
    THEN [pl |-> [st.pl EXCEPT ![i].isHidden = TRUE],
          log |-> Append(st.log, [kept |-> j, hidden |-> i])]
    ELSE st

\* comparePair letting a hidden earlier placement hide a later one
comparePairHiddenHides(st, orient, i, j) ==
    IF st.pl[j].isHidden THEN st
    ELSE IF doIntersect(orient, st.pl[i].bounds, st.pl[j].bounds)
    THEN [pl |-> [st.pl EXCEPT ![j].isHidden = TRUE],
          log |-> Append(st.log, [kept |-> i, hidden |-> j])]
    ELSE st

\* the body of the inner loop of ticks, for the pair i < j
comparePair(st, orient, i, j) ==
    IF st.pl[i].isHidden \/ st.pl[j].isHidden THEN st
    ELSE IF doIntersect(orient, st.pl[i].bounds, st.pl[j].bounds)
    THEN [pl |-> [st.pl EXCEPT ![j].isHidden = TRUE],
          log |-> Append(st.log, [kept |-> i, hidden |-> j])]
    ELSE st

RECURSIVE innerLoop(_, _, _, _)
innerLoop(st, orient, i, j) ==
    IF j > Len(st.pl) THEN st
    ELSE innerLoop(comparePair(st, orient, i, j), orient, i, j + 1)

RECURSIVE outerLoop(_, _, _)
outerLoop(st, orient, i) ==
    IF i > Len(st.pl) THEN st
    ELSE outerLoop(innerLoop(st, orient, i, i + 1), orient, i + 1)

\* the inner loop leaving at the first placement it hides
RECURSIVE innerLoopBreak(_, _, _, _)
innerLoopBreak(st, orient, i, j) ==
    IF j > Len(st.pl) THEN st
    ELSE LET next == comparePair(st, orient, i, j)
         IN  IF next # st THEN next ELSE innerLoopBreak(next, orient, i, j + 1)

RECURSIVE outerLoopBreak(_, _, _)
outerLoopBreak(st, orient, i) ==
    IF i > Len(st.pl) THEN st
    ELSE outerLoopBreak(innerLoopBreak(st, orient, i, i + 1), orient, i + 1)

collisionPassBreak(pl, orient) == outerLoopBreak([pl |-> pl, log |-> <<>>], orient, 1)

\* the two nested loops of ticks over tickPlacements
collisionPass(pl, orient) == outerLoop([pl |-> pl, log |-> <<>>], orient, 1)

\* visibleTicks returning the survivors in the order of the placements
visibleTicksUnsorted(pl) ==
    LET kept == SelectSeq(pl, LAMBDA t : ~t.isHidden)
    IN  [i \in 1..Len(kept) |-> kept[i].tick]

\* sortBy(tickPlacements.filter(t => !t.isHidden).map(t => t.tick))
visibleTicks(pl) ==
    LET kept == SelectSeq(pl, LAMBDA t : ~t.isHidden)
    IN  sortBy([i \in 1..Len(kept) |-> kept[i].tick])

\* AbstractAxis.ticks over the placements pl
evalTicks(pl) ==
    LET st == collisionPass(pl, axis.orient)
    IN  /\ placements' = st.pl
        /\ hideLog' = st.log
        /\ shown' = visibleTicks(st.pl)
        /\ evals' = evals + 1
        /\ UNCHANGED axis
        /\ UNCHANGED <<animVars, selectorVars, runtimeVars, layoutVars>>

\* ticks is evaluated and tickPlacements is derived anew
ticks ==
    /\ evals < MaxEvals
    /\ evalTicks(tickPlacements(axis))

\* ticks is evaluated again over the tickPlacements of the evaluation before
ticksCached ==
    /\ evals >= 1
    /\ evals < MaxEvals
    /\ evalTicks(placements)

(***************************************************************************)
(* ScaleSelector                                                           *)
(***************************************************************************)
MaxOptions == 3
MaxClicks == 3

\* Array.prototype.indexOf, zero-based, -1 when the value is absent
IndexOf(options, type) ==
    IF \E i \in 1..Len(options) : options[i] = type
    THEN (CHOOSE i \in 1..Len(options) :
              /\ options[i] = type
              /\ \A k \in 1..(i - 1) : options[k] # type) - 1
    ELSE -1

\* nextScaleType staying on the last option instead of wrapping
nextScaleTypeNoWrap(type, options) ==
    LET next == IndexOf(options, type) + 1
        nextScaleTypeIndex == IF next >= Len(options) THEN Len(options) - 1 ELSE next
    IN  IF options = <<>> THEN "undefined" ELSE options[nextScaleTypeIndex + 1]

\* nextScaleType leaving a scale type that is not among the options as it is
nextScaleTypeKeepingUnknown(type, options) ==
    LET next == IndexOf(options, type) + 1
        nextScaleTypeIndex == IF next >= Len(options) THEN 0 ELSE next
    IN  IF options = <<>> THEN "undefined"
        ELSE IF next = 0 THEN type
        ELSE options[nextScaleTypeIndex + 1]

\* newValue of onClick: the option after the current one, the first after the last
nextScaleType(type, options) ==
    LET next == IndexOf(options, type) + 1
        nextScaleTypeIndex == IF next >= Len(options) THEN 0 ELSE next
    IN  IF options = <<>> THEN "undefined" ELSE options[nextScaleTypeIndex + 1]

\* onClick assigning the scale type even when a callback takes the value
onClickAlwaysMutating ==
    /\ clicks < MaxClicks
    /\ clicks' = clicks + 1
    /\ LET newValue == nextScaleType(scaleType, scaleTypeOptions)
       IN  /\ scaleType' = newValue
           /\ IF hasOnScaleTypeChange
              THEN /\ onScaleTypeChangeCalls' = Append(onScaleTypeChangeCalls, newValue)
                   /\ UNCHANGED updateChartScaleTypeCalls
              ELSE IF hasUpdateChartScaleType
              THEN /\ updateChartScaleTypeCalls' = Append(updateChartScaleTypeCalls, newValue)
                   /\ UNCHANGED onScaleTypeChangeCalls
              ELSE UNCHANGED <<onScaleTypeChangeCalls, updateChartScaleTypeCalls>>
    /\ UNCHANGED <<scaleTypeOptions, hasOnScaleTypeChange, hasUpdateChartScaleType,
                   startScaleType>>
    /\ UNCHANGED <<animVars, tickVars, runtimeVars, layoutVars>>

\* ScaleSelector.onClick
onClick ==
    /\ clicks < MaxClicks
    /\ clicks' = clicks + 1
    /\ LET newValue == nextScaleType(scaleType, scaleTypeOptions)
       IN  IF hasOnScaleTypeChange
           THEN /\ onScaleTypeChangeCalls' = Append(onScaleTypeChangeCalls, newValue)
                /\ UNCHANGED <<updateChartScaleTypeCalls, scaleType>>
           ELSE IF hasUpdateChartScaleType
           THEN /\ updateChartScaleTypeCalls' = Append(updateChartScaleTypeCalls, newValue)
                /\ UNCHANGED <<onScaleTypeChangeCalls, scaleType>>
           ELSE /\ scaleType' = newValue
                /\ UNCHANGED <<onScaleTypeChangeCalls, updateChartScaleTypeCalls>>
    /\ UNCHANGED <<scaleTypeOptions, hasOnScaleTypeChange, hasUpdateChartScaleType,
                   startScaleType>>
    /\ UNCHANGED <<animVars, tickVars, runtimeVars, layoutVars>>

(***************************************************************************)
(* AxisRuntime (charts/axis/AxisSpec.ts); label and tickFormat are left    *)
(* out, the domain does not depend on them                                 *)
(***************************************************************************)

\* Infinity and -Infinity beside the rationals
Infinity == <<1, 0>>
NegInfinity == <<-1, 0>>

\* a < b on numbers that may be infinite
Less(a, b) ==
    IF a = b THEN FALSE
    ELSE IF a = NegInfinity \/ b = Infinity THEN TRUE
    ELSE IF a = Infinity \/ b = NegInfinity THEN FALSE
    ELSE RLt(a, b)

MathMin(a, b) == IF Less(b, a) THEN b ELSE a

MathMax(a, b) == IF Less(a, b) THEN b ELSE a

\* value || 0
OrZero(value) == IF value = Undefined THEN Zero ELSE value

\* value ?? fallback
Coalesce(value, fallback) == IF value = Undefined THEN fallback ELSE value

\* the field initialisers of AxisRuntime; canChangeScaleType?: true is FALSE when unset
RuntimeDefaults ==
    [min |-> Undefined, max |-> Undefined, scaleType |-> "linear", canChangeScaleType |-> FALSE]

\* lodash extend(this, props): the fields of props overwrite those of the runtime
extend(r, props) ==
    [k \in DOMAIN r |-> IF k \in DOMAIN props THEN props[k] ELSE r[k]]

\* a log scale domain cannot have values <= 0
constrainedMin(r) ==
    IF r.scaleType = "log" /\ RLe(OrZero(r.min), Zero)
    THEN Infinity
    ELSE Coalesce(r.min, Infinity)

constrainedMax(r) ==
    IF r.scaleType = "log" /\ RLe(OrZero(r.max), Zero)
    THEN NegInfinity
    ELSE Coalesce(r.max, NegInfinity)

\* AxisRuntime.domain
constrainedDomain(r) == <<constrainedMin(r), constrainedMax(r)>>

\* AxisRuntime.scaleTypeOptions
runtimeScaleTypeOptions(r) ==
    IF r.canChangeScaleType THEN <<"linear", "log">> ELSE <<r.scaleType>>

\* toSpec letting a configured bound replace the bound of defaultDomain
toSpecOfConfiguredFirst(r, defaultDomain) ==
    [domain |-> <<IF constrainedDomain(r)[1] = Infinity THEN defaultDomain[1]
                  ELSE constrainedDomain(r)[1],
                  IF constrainedDomain(r)[2] = NegInfinity THEN defaultDomain[2]
                  ELSE constrainedDomain(r)[2]>>,
     scaleType |-> r.scaleType,
     scaleTypeOptions |-> runtimeScaleTypeOptions(r)]

\* the AxisSpec of toSpec({ defaultDomain })
toSpecOf(r, defaultDomain) ==
    [domain |-> <<MathMin(constrainedDomain(r)[1], defaultDomain[1]),
                  MathMax(constrainedDomain(r)[2], defaultDomain[2])>>,
     scaleType |-> r.scaleType,
     scaleTypeOptions |-> runtimeScaleTypeOptions(r)]

\* the versions of AxisRuntime whose constrained bounds are undefined, not
\* infinite, when the bound is unset or discarded on a log scale
constrainedMinOrUndefined(r) ==
    IF r.scaleType = "log" /\ RLe(OrZero(r.min), Zero) THEN Undefined ELSE r.min

constrainedMaxOrUndefined(r) ==
    IF r.scaleType = "log" /\ RLe(OrZero(r.max), Zero) THEN Undefined ELSE r.max

domainOrUndefined(r) == <<constrainedMinOrUndefined(r), constrainedMaxOrUndefined(r)>>

\* toSpec with this.domain[0] ?? Infinity and this.domain[1] ?? -Infinity
toSpecCoalescing(r, defaultDomain) ==
    [domain |-> <<MathMin(Coalesce(domainOrUndefined(r)[1], Infinity), defaultDomain[1]),
                  MathMax(Coalesce(domainOrUndefined(r)[2], NegInfinity), defaultDomain[2])>>,
     scaleType |-> r.scaleType,
     scaleTypeOptions |-> runtimeScaleTypeOptions(r)]

\* defaultTo of charts/utils/Util: the default for a value that is undefined
defaultTo(value, defaultValue) == IF value = Undefined THEN defaultValue ELSE value

\* toSpec with defaultTo(this.domain[0], Infinity) and defaultTo(this.domain[1], -Infinity)
toSpecDefaultTo(r, defaultDomain) ==
    [domain |-> <<MathMin(defaultTo(domainOrUndefined(r)[1], Infinity), defaultDomain[1]),
                  MathMax(defaultTo(domainOrUndefined(r)[2], NegInfinity), defaultDomain[2])>>,
     scaleType |-> r.scaleType,
     scaleTypeOptions |-> runtimeScaleTypeOptions(r)]

\* value < this.constrainedMin || value > this.constrainedMax
isOutsideDomainOf(r, value) ==
    Less(value, constrainedMin(r)) \/ Less(constrainedMax(r), value)

\* isOutsideDomain of the version whose constrained bounds may be undefined
isOutsideDomainChecked(r, value) ==
    \/ /\ constrainedMinOrUndefined(r) # Undefined
       /\ Less(value, constrainedMinOrUndefined(r))
    \/ /\ constrainedMaxOrUndefined(r) # Undefined
       /\ Less(constrainedMaxOrUndefined(r), value)

\* configured bounds and data-derived default domains the runtime is used with
ConfiguredMins == {Undefined, Num(-1), Zero, Num(2)}
ConfiguredMaxs == {Undefined, Zero, Num(4), Num(10)}
DefaultDomains == {<<Num(-1), Num(5)>>, <<Zero, Num(5)>>, <<One, Num(5)>>, <<Num(3), Num(20)>>}

RuntimeProps ==
    [min : ConfiguredMins] \cup [max : ConfiguredMaxs] \cup [scaleType : ScaleTypes]
        \cup [canChangeScaleType : BOOLEAN]

\* AxisRuntime.update(props)
update ==
    \E props \in RuntimeProps :
        /\ runtime' = extend(runtime, props)
        /\ runtime' # runtime
        /\ UNCHANGED <<toSpecArg, axisSpec, outsideArg, outside>>
        /\ UNCHANGED <<animVars, tickVars, selectorVars, layoutVars>>

\* AxisRuntime.toSpec({ defaultDomain })
toSpec ==
    \E defaultDomain \in DefaultDomains :
        /\ toSpecArg' = defaultDomain
        /\ axisSpec' = toSpecOf(runtime, defaultDomain)
        /\ UNCHANGED <<runtime, outsideArg, outside>>
        /\ UNCHANGED <<animVars, tickVars, selectorVars, layoutVars>>

\* finite values isOutsideDomain is asked about
OutsideValues == {Num(-2), One, Num(3), Num(12)}

\* AxisRuntime.isOutsideDomain(value)
isOutsideDomain ==
    \E value \in OutsideValues :
        /\ outsideArg' = value
        /\ outside' = isOutsideDomainOf(runtime, value)
        /\ UNCHANGED <<runtime, toSpecArg, axisSpec>>
        /\ UNCHANGED <<animVars, tickVars, selectorVars, layoutVars>>

\* the text-measuring service on the labels at hand: character count and measured box
OuterWidths == {200, 300}
OuterHeights == {100, 200}
TickTexts ==
    {[chars |-> 1, width |-> 6, height |-> 12], [chars |-> 2, width |-> 12, height |-> 12],
     [chars |-> 3, width |-> 10, height |-> 12], [chars |-> 3, width |-> 18, height |-> 12]}
XTickTexts == {[chars |-> 1, width |-> 6, height |-> 10], [chars |-> 1, width |-> 6, height |-> 12]}
XLabelTexts == {[width |-> 0, lineHeight |-> 11], [width |-> 250, lineHeight |-> 11]}
YLabelTexts == {[width |-> 0, lineHeight |-> 11], [width |-> 150, lineHeight |-> 11]}

(***************************************************************************)
(* AxisBox layout: the thickness of each axis in isolation, innerBounds    *)
(* and the final ranges                                                    *)
(***************************************************************************)
MaxLabels == 3

\* bounds.padBottom(amount): the bottom edge moves in
PadBottom(b, amount) == MakeBounds(b.x, b.y, b.width, RSub(b.height, amount))

\* bounds.padLeft(amount): the left edge moves in
PadLeft(b, amount) == MakeBounds(RAdd(b.x, amount), b.y, RSub(b.width, amount), b.height)

\* bounds.xRange() and bounds.yRange(); y pixels grow downwards
XRange(b) == <<Left(b), Right(b)>>

YRange(b) == <<Bottom(b), Top(b)>>

\* scale.rangeSize
rangeSize(range) ==
    IF RLt(range[1], range[2]) THEN RSub(range[2], range[1]) ELSE RSub(range[1], range[2])

\* TextWrap.height: the text is broken into lines no wider than maxWidth
wrappedHeight(text, maxWidth) ==
    LET room == IF RLt(maxWidth, One) THEN One ELSE maxWidth
        lines == (text.width * room[2] + room[1] - 1) \div room[1]
    IN  Num(text.lineHeight * (IF lines < 1 THEN 1 ELSE lines))

\* AbstractAxis.label: a TextWrap of the label text in labelWidth, none for ""
label(text, labelWidth) ==
    IF text.width = 0 THEN Undefined ELSE wrappedHeight(text, labelWidth)

\* lodash maxBy with tick => tick.length: the first element with the most characters
maxByLength(list) ==
    list[CHOOSE i \in 1..Len(list) :
             /\ \A k \in 1..Len(list) : list[k].chars <= list[i].chars
             /\ \A k \in 1..(i - 1) : list[k].chars < list[i].chars]

\* VerticalAxis.width of the axis on the given range
verticalAxisWidth(props, range) ==
    LET longestTick == maxByLength(props.yFormattedTicks)
    IN  RAdd(RAdd(ForText(longestTick.width, longestTick.height).width,
                  labelOffset([orient |-> "vertical",
                               labelHeight |-> label(props.yLabel, rangeSize(range))])),
             Num(5))

\* HorizontalAxis.height of the axis on the given range
horizontalAxisHeight(props, range) ==
    LET firstFormattedTick == props.xFormattedTicks[1]
    IN  RAdd(RAdd(ForText(firstFormattedTick.width, firstFormattedTick.height).height,
                  labelOffset([orient |-> "horizontal",
                               labelHeight |-> label(props.xLabel, rangeSize(range))])),
             Num(5))

\* AxisBox.xAxisHeight and yAxisWidth: the axes in isolation
xAxisHeight(props) == horizontalAxisHeight(props, <<Zero, props.bounds.width>>)

yAxisWidth(props) == verticalAxisWidth(props, <<Zero, props.bounds.height>>)

\* innerBounds padded once more by the thickness of the final axes
innerBoundsOfFinalAxes(props) ==
    LET first == PadLeft(PadBottom(props.bounds, xAxisHeight(props)), yAxisWidth(props))
    IN  PadLeft(PadBottom(props.bounds, horizontalAxisHeight(props, XRange(first))),
                verticalAxisWidth(props, YRange(first)))

\* AxisBox.innerBounds
innerBounds(props) ==
    PadLeft(PadBottom(props.bounds, xAxisHeight(props)), yAxisWidth(props))

\* AxisBoxView.render: innerBounds, the final ranges (xAxisViewWithRange,
\* yAxisViewWithRange) and the final horizontalAxis and verticalAxis
render ==
    /\ layoutProps # Undefined
    /\ layout = Undefined
    /\ layout' = [innerBounds |-> innerBounds(layoutProps),
                  xRange |-> XRange(innerBounds(layoutProps)),
                  yRange |-> YRange(innerBounds(layoutProps)),
                  horizontalAxisHeight |->
                      horizontalAxisHeight(layoutProps, XRange(innerBounds(layoutProps))),
                  verticalAxisWidth |->
                      verticalAxisWidth(layoutProps, YRange(innerBounds(layoutProps)))]
    /\ UNCHANGED layoutProps
    /\ UNCHANGED <<animVars, tickVars, selectorVars, runtimeVars>>

(***************************************************************************)
(* Initial states                                                          *)
(***************************************************************************)

\* a constructed AxisBox whose view is not mounted yet
AxisBoxConstructed ==
    /\ targetYDomain = Dom(1, 100)
    /\ targetXDomain = Dom(1, 100)
    /\ prevYDomain = Dom(1, 100)
    /\ prevXDomain = Dom(1, 100)
    /\ animProgress = Undefined
    /\ frameStart = Undefined
    /\ reactionActive = FALSE
    /\ rafQueue = <<>>
    /\ running = <<>>
    /\ now = 0
    /\ mounted = "no"
    /\ changes = 0

\* measured widths of tick labels; on a vertical axis every placement starts at
\* x = 1, so the widths decide no collision there
TextWidths(orient) == IF orient = "horizontal" THEN {10, 30} ELSE {10}
\* the labels of one axis share a font size and so a height; the height decides
\* collisions on a vertical axis only
TextHeights(orient) == IF orient = "vertical" THEN {8, 12} ELSE {12}
\* scale.hideFractionalTicks and the width of the start and end labels are read
\* by the horizontal axis only
HideFractionalTicks(orient) == IF orient = "horizontal" THEN BOOLEAN ELSE {FALSE}
EndWidths(orient) == TextWidths(orient)
\* height of the wrapped axis label, Undefined without a label text
LabelHeights(orient) == IF orient = "vertical" THEN {Undefined, Num(14)} ELSE {Num(14)}

\* pixel range of the axis: innerBounds.xRange() or innerBounds.yRange()
RangeOf(orient) == IF orient = "horizontal" THEN <<Num(0), Num(30)>> ELSE <<Num(30), Num(0)>>

RECURSIVE Pow10(_)
Pow10(k) == IF k = 0 THEN 1 ELSE 10 * Pow10(k - 1)

\* the values scale.getTickValues() can produce
CandidateValues(type) ==
    IF type = "log" THEN {Num(Pow10(k)) : k \in 0..MaxTickValue}
    ELSE {Num(k) : k \in 0..MaxTickValue}

ScaleDomains(type) ==
    IF type = "log" THEN {<<Num(1), Num(Pow10(MaxTickValue))>>}
    ELSE {<<Num(0), Num(MaxTickValue)>>, <<Rat(1, 2), Num(MaxTickValue)>>}

\* the lists scale.getTickValues() can return on the domain: ascending values of
\* the domain, each a separate object
TickLists(type, domain, orient) ==
    LET Ticks == [value : {v \in CandidateValues(type) : RLe(domain[1], v) /\ RLe(v, domain[2])},
                  priority : 1..MaxPriority,
                  gridLineOnly : BOOLEAN,
                  textWidth : TextWidths(orient)]
        Lists == UNION {[1..n -> Ticks] : n \in 0..MaxTicks}
    IN  { [i \in 1..Len(l) |->
              [value |-> l[i].value, priority |-> l[i].priority,
               isFirstOrLastTick |-> FALSE, gridLineOnly |-> l[i].gridLineOnly,
               textWidth |-> l[i].textWidth, ref |-> i]] :
          l \in {m \in Lists : \A i \in 1..(Len(m) - 1) : RLt(m[i].value, m[i + 1].value)} }

AxisIdle ==
    /\ axis = [orient |-> "vertical", scaleType |-> "linear",
               domain |-> <<Num(0), Num(MaxTickValue)>>, range |-> RangeOf("vertical"),
               hideFractionalTicks |-> FALSE, labelHeight |-> Undefined, textHeight |-> 8,
               endWidth |-> 10, tickValues |-> <<>>]
    /\ placements = <<>>
    /\ shown = <<>>
    /\ hideLog = <<>>
    /\ evals = 0

SelectorIdle ==
    /\ scaleType = "linear"
    /\ scaleTypeOptions = <<"linear">>
    /\ hasOnScaleTypeChange = FALSE
    /\ hasUpdateChartScaleType = FALSE
    /\ onScaleTypeChangeCalls = <<>>
    /\ updateChartScaleTypeCalls = <<>>
    /\ startScaleType = "linear"
    /\ clicks = 0

RuntimeIdle ==
    /\ runtime = RuntimeDefaults
    /\ toSpecArg = Undefined
    /\ axisSpec = Undefined
    /\ outsideArg = Undefined
    /\ outside = Undefined

LayoutIdle ==
    /\ layoutProps = Undefined
    /\ layout = Undefined

(***************************************************************************)
(* Specification of the AxisBox animation                                  *)
(***************************************************************************)
Init ==
    /\ xDomain \in XInputDomains
    /\ yDomain \in YInputDomains
    /\ xScaleType \in ScaleTypes
    /\ yScaleType \in ScaleTypes
    /\ AxisBoxConstructed
    /\ AxisIdle
    /\ SelectorIdle
    /\ RuntimeIdle
    /\ LayoutIdle

Next ==
    \/ componentDidMount
    \/ setupAnimation
    \/ DomainChange
    \/ frame
    \/ Unmount

Spec == Init /\ [][Next]_vars

(***************************************************************************)
(* The AxisBox animation under a host that keeps delivering frames.  The   *)
(* host runs every callback it was asked for (weak fairness of the two     *)
(* callbacks), and the inputs stop changing while the clock has room for   *)
(* the frames of the last tween: the first frame within 300 ms, a second   *)
(* within 150 ms and a third within 100 ms.                                *)
(***************************************************************************)
LastChangeTime == MaxTime - (300 + 150 + 100)

DomainChangeInTime ==
    /\ now <= LastChangeTime
    /\ DomainChange

NextLive ==
    \/ componentDidMount
    \/ setupAnimation
    \/ DomainChangeInTime
    \/ frame
    \/ Unmount

\* the host takes the frame callback at the head of the batch and calls it with the
\* timestamp of the frame; within NextLive these are the steps of frame, and the
\* two actions are enabled in the same states
hostCallsFrame ==
    \E timestamp \in Timestamps :
        /\ Batch # <<>>
        /\ Head(Batch) = "frame"
        /\ now' = timestamp
        /\ running' = Tail(Batch)

SpecLive ==
    Init /\ [][NextLive]_vars /\ WF_<<now, running>>(hostCallsFrame) /\ WF_vars(setupAnimation)

(***************************************************************************)
(* Specification of the tick collision pass                                *)
(***************************************************************************)
InitTicks ==
    /\ xDomain = Dom(1, 100)
    /\ yDomain = Dom(1, 100)
    /\ xScaleType = "linear"
    /\ yScaleType = "linear"
    /\ AxisBoxConstructed
    /\ \E orient \in {"horizontal", "vertical"}, type \in ScaleTypes :
           \E domain \in ScaleDomains(type) :
               axis \in [orient : {orient}, scaleType : {type}, domain : {domain},
                         range : {RangeOf(orient)},
                         hideFractionalTicks : HideFractionalTicks(orient),
                         labelHeight : LabelHeights(orient),
                         textHeight : TextHeights(orient),
                         endWidth : EndWidths(orient),
                         tickValues : TickLists(type, domain, orient)]
    /\ placements = <<>>
    /\ shown = <<>>
    /\ hideLog = <<>>
    /\ evals = 0
    /\ SelectorIdle
    /\ RuntimeIdle
    /\ LayoutIdle

NextTicks ==
    \/ ticks
    \/ ticksCached

SpecTicks == InitTicks /\ [][NextTicks]_vars

(***************************************************************************)
(* Specification of the ScaleSelector                                      *)
(***************************************************************************)
InitSelector ==
    /\ xDomain = Dom(1, 100)
    /\ yDomain = Dom(1, 100)
    /\ xScaleType = "linear"
    /\ yScaleType = "linear"
    /\ AxisBoxConstructed
    /\ AxisIdle
    /\ scaleTypeOptions \in UNION {[1..n -> ScaleTypes] : n \in 1..MaxOptions}
    /\ scaleType \in ScaleTypes
    /\ startScaleType = scaleType
    /\ hasOnScaleTypeChange \in BOOLEAN
    /\ hasUpdateChartScaleType \in BOOLEAN
    /\ onScaleTypeChangeCalls = <<>>
    /\ updateChartScaleTypeCalls = <<>>
    /\ clicks = 0
    /\ RuntimeIdle
    /\ LayoutIdle

NextSelector == onClick

SpecSelector == InitSelector /\ [][NextSelector]_vars

(***************************************************************************)
(* Specification of the AxisRuntime                                        *)
(***************************************************************************)
InitRuntime ==
    /\ xDomain = Dom(1, 100)
    /\ yDomain = Dom(1, 100)
    /\ xScaleType = "linear"
    /\ yScaleType = "linear"
    /\ AxisBoxConstructed
    /\ AxisIdle
    /\ SelectorIdle
    /\ runtime \in [min : ConfiguredMins, max : ConfiguredMaxs, scaleType : ScaleTypes,
                     canChangeScaleType : BOOLEAN]
    /\ toSpecArg = Undefined
    /\ axisSpec = Undefined
    /\ outsideArg = Undefined
    /\ outside = Undefined
    /\ LayoutIdle

NextRuntime ==
    \/ update
    \/ toSpec
    \/ isOutsideDomain

SpecRuntime == InitRuntime /\ [][NextRuntime]_vars

(***************************************************************************)
(* Specification of the AxisBox layout                                     *)
(***************************************************************************)
InitLayout ==
    /\ xDomain = Dom(1, 100)
    /\ yDomain = Dom(1, 100)
    /\ xScaleType = "linear"
    /\ yScaleType = "linear"
    /\ AxisBoxConstructed
    /\ AxisIdle
    /\ SelectorIdle
    /\ RuntimeIdle
    /\ \E x \in {0, 10}, width \in OuterWidths, height \in OuterHeights :
           layoutProps \in [bounds : {MakeBounds(Num(x), Zero, Num(width), Num(height))},
                            xLabel : XLabelTexts,
                            yLabel : YLabelTexts,
                            xFormattedTicks : [1..1 -> XTickTexts],
                            yFormattedTicks : UNION {[1..n -> TickTexts] : n \in 1..MaxLabels}]
    /\ layout = Undefined

NextLayout == render

SpecLayout == InitLayout /\ [][NextLayout]_vars

(***************************************************************************)
(* Properties of the AxisBox animation (Spec)                              *)
(***************************************************************************)

\* the watched domains change while the reaction of setupAnimation is registered
DomainsChangeWatched ==
    reactionActive /\ <<xDomain', yDomain'>> # <<xDomain, yDomain>>

\* C1: when the watched domains change after setupAnimation, one step sets the
\* prev domains to the domains rendered just before the change, the target
\* domains to the new inputs, animProgress to 0, and schedules exactly one frame
ReactionStartsTween ==
    [][DomainsChangeWatched =>
          /\ prevXDomain' = currentXDomain
          /\ prevYDomain' = currentYDomain
          /\ targetXDomain' = xDomain'
          /\ targetYDomain' = yDomain'
          /\ animProgress' = Zero
          /\ PendingFrames' = PendingFrames + 1]_vars

\* a tween restarted from a rendered domain that is neither an input nor the old target
ReactionStartsTweenWitness ==
    /\ animProgress = Zero
    /\ changes >= 2
    /\ prevXDomain \notin XInputDomains
    /\ targetXDomain = xDomain
    /\ PendingFrames >= 1

\* (1 - p) * a + p * b
Mix(a, b, p) == RAdd(RMul(RSub(One, p), a), RMul(p, b))

LinearTween(current, prev, target) ==
    /\ animProgress = Zero => current = prev
    /\ animProgress = One => current = target
    /\ current = <<Mix(prev[1], target[1], animProgress), Mix(prev[2], target[2], animProgress)>>
    /\ (prev = Dom(1, 100) /\ target = Dom(1, 500) /\ animProgress = Rat(1, 2))
           => current = Dom(1, 300)

\* C2: on a linear scale the current domain is the prev domain at progress 0, the
\* target domain at progress 1 and in between each bound is prev + (target - prev) * p
LinearInterpolation ==
    animProgress # Undefined =>
        /\ xScaleType = "linear" => LinearTween(currentXDomain, prevXDomain, targetXDomain)
        /\ yScaleType = "linear" => LinearTween(currentYDomain, prevYDomain, targetYDomain)

\* the tween from [1, 100] to [1, 500] at its midpoint, and one at its start
LinearInterpolationWitness ==
    /\ xScaleType = "linear"
    /\ prevXDomain = Dom(1, 100)
    /\ targetXDomain = Dom(1, 500)
    /\ animProgress = Rat(1, 2)
    /\ currentXDomain = Dom(1, 300)

\* the host runs a frame callback of the AxisBox
FrameStep ==
    /\ Batch # <<>>
    /\ Head(Batch) = "frame"
    /\ (now' # now \/ running' # running)

\* C3: animProgress first reaches 1 at the first frame whose timestamp is at
\* least 300 ms after the tween's frameStart, and at no earlier frame
TweenLasts300ms ==
    [][(FrameStep /\ animProgress # Undefined /\ animProgress # One)
          => LET start == IF frameStart = Undefined THEN Num(now') ELSE frameStart
                 elapsed == RSub(Num(now'), start)
             IN  animProgress' = One <=> RLe(Num(AnimationDuration), elapsed)]_vars

\* C4: at most one frame callback of the AxisBox is scheduled and not yet run
AtMostOnePendingFrame == PendingFrames <= 1

\* C5: after the view is torn down while a tween is incomplete, no frame callback
\* schedules a further frame or changes the animation state, and the domain
\* watch starts no new tween
TornDownBoxIsInert ==
    [][(mounted = "unmounted" /\ animProgress # Undefined /\ RLt(animProgress, One))
          => /\ UNCHANGED <<animProgress, frameStart, prevXDomain, prevYDomain,
                            targetXDomain, targetYDomain>>
             /\ PendingFrames' <= PendingFrames]_vars

\* prev + (target - prev) * factor on both bounds
Lerp(prev, target, factor) ==
    << RAdd(prev[1], RMul(RSub(target[1], prev[1]), factor)),
       RAdd(prev[2], RMul(RSub(target[2], prev[2]), factor)) >>

\* C6: at progress exactly 0 the interpolation factor of the bounds of an axis is
\* 0.01 on a log axis and 0 on a linear axis
LogStartFactor ==
    animProgress = Zero =>
        /\ currentXDomain = Lerp(prevXDomain, targetXDomain,
                                 IF xScaleType = "log" THEN Rat(1, 100) ELSE Zero)
        /\ currentYDomain = Lerp(prevYDomain, targetYDomain,
                                 IF yScaleType = "log" THEN Rat(1, 100) ELSE Zero)

(***************************************************************************)
(* Properties of the tick collision pass (SpecTicks)                       *)
(***************************************************************************)
Shown(i) == ~placements[i].isHidden

Collide(i, j) == doIntersect(axis.orient, placements[i].bounds, placements[j].bounds)

\* priority of the i-th placement: tickPlacements keeps the order of the sorted ticks
PriorityOf(i) == sortByPriority(baseTicks(axis))[i].priority

\* C7: no two placements that survive ticks intersect under the intersection
\* test of the axis
NoSurvivorsCollide ==
    evals >= 1 =>
        \A i, j \in 1..Len(placements) :
            (i # j /\ Shown(i) /\ Shown(j)) => ~Collide(i, j)

\* three placements of which one was hidden and two survive
NoSurvivorsCollideWitness ==
    /\ evals >= 1
    /\ Len(placements) >= 3
    /\ \E i, j, k \in 1..Len(placements) : i # j /\ Shown(i) /\ Shown(j) /\ ~Shown(k)

\* C8: of two placements that collide while neither is hidden, the earlier one of
\* the priority-sorted list survives and the later one is hidden; the survivor
\* never has the higher priority number
LowerPriorityNumberWins ==
    evals >= 1 =>
        /\ \A e \in 1..Len(hideLog) :
               /\ hideLog[e].kept < hideLog[e].hidden
               /\ PriorityOf(hideLog[e].kept) <= PriorityOf(hideLog[e].hidden)
               /\ Shown(hideLog[e].kept)
               /\ ~Shown(hideLog[e].hidden)
        /\ \A i, j \in 1..Len(placements) :
               (PriorityOf(i) < PriorityOf(j) /\ Shown(i) /\ Collide(i, j)) => ~Shown(j)

\* a collision between placements of different priority numbers was resolved
LowerPriorityNumberWinsWitness ==
    /\ evals >= 1
    /\ \E e \in 1..Len(hideLog) :
           PriorityOf(hideLog[e].kept) < PriorityOf(hideLog[e].hidden)

\* C9: a second evaluation of ticks hides no further placement and returns the
\* same list as the first
TicksIdempotent ==
    [][(evals >= 1 /\ evals' = evals + 1)
          => (placements' = placements /\ shown' = shown)]_vars

\* the pass has run again over placements some of which the first pass had hidden
TicksIdempotentWitness ==
    /\ evals = 2
    /\ hideLog = <<>>
    /\ \E i, j \in 1..Len(placements) : Shown(i) /\ ~Shown(j)
    /\ Len(shown) >= 2

(***************************************************************************)
(* Properties of the ScaleSelector (SpecSelector)                          *)
(***************************************************************************)
DirectMutation == ~hasOnScaleTypeChange /\ ~hasUpdateChartScaleType

Distinct(options) ==
    \A i, j \in 1..Len(options) : options[i] = options[j] => i = j

\* the option k places after type in options, wrapping around
OptionAfter(type, options, k) ==
    options[((IndexOf(options, type) + k) % Len(options)) + 1]

\* C10: a click selects the option after the current scale type, the first after
\* the last; with n distinct options changed by direct mutation, n clicks lead
\* back to the scale type before the first click
ClickCycles ==
    (Distinct(scaleTypeOptions)
        /\ \E i \in 1..Len(scaleTypeOptions) : scaleTypeOptions[i] = startScaleType)
    => /\ DirectMutation =>
              /\ scaleType = OptionAfter(startScaleType, scaleTypeOptions, clicks)
              /\ clicks = Len(scaleTypeOptions) => scaleType = startScaleType
       /\ \A c \in 1..Len(onScaleTypeChangeCalls) :
              onScaleTypeChangeCalls[c] = OptionAfter(scaleType, scaleTypeOptions, 1)
       /\ \A c \in 1..Len(updateChartScaleTypeCalls) :
              updateChartScaleTypeCalls[c] = OptionAfter(scaleType, scaleTypeOptions, 1)

\* two clicks on [linear, log] from linear: log, then linear again
ClickCyclesWitness ==
    /\ DirectMutation
    /\ scaleTypeOptions = <<"linear", "log">>
    /\ startScaleType = "linear"
    /\ clicks = 2
    /\ scaleType = "linear"

\* C11: each click hands the new value to exactly one sink: onScaleTypeChange when
\* it is supplied, else updateChartScaleType when it is supplied, and then the
\* selector's scaleType is left as it was; only when neither callback is supplied
\* is scaleType itself assigned
OneSinkPerClick ==
    [][clicks' = clicks + 1 =>
          LET newValue == OptionAfter(scaleType, scaleTypeOptions, 1)
          IN  /\ hasOnScaleTypeChange =>
                     /\ onScaleTypeChangeCalls' = Append(onScaleTypeChangeCalls, newValue)
                     /\ updateChartScaleTypeCalls' = updateChartScaleTypeCalls
                     /\ scaleType' = scaleType
              /\ (~hasOnScaleTypeChange /\ hasUpdateChartScaleType) =>
                     /\ updateChartScaleTypeCalls' = Append(updateChartScaleTypeCalls, newValue)
                     /\ onScaleTypeChangeCalls' = onScaleTypeChangeCalls
                     /\ scaleType' = scaleType
              /\ DirectMutation =>
                     /\ scaleType' = newValue
                     /\ onScaleTypeChangeCalls' = onScaleTypeChangeCalls
                     /\ updateChartScaleTypeCalls' = updateChartScaleTypeCalls]_vars

\* both callbacks supplied on [linear, log]: two clicks reach onScaleTypeChange
\* alone, each asking for log, and the scale type is still linear
OneSinkPerClickWitness ==
    /\ hasOnScaleTypeChange
    /\ hasUpdateChartScaleType
    /\ scaleTypeOptions = <<"linear", "log">>
    /\ clicks = 2
    /\ onScaleTypeChangeCalls = <<"log", "log">>
    /\ updateChartScaleTypeCalls = <<>>
    /\ scaleType = "linear"

(***************************************************************************)
(* Properties of the AxisRuntime (SpecRuntime)                             *)
(***************************************************************************)

\* C12: every AxisSpec returned by toSpec for a log scale has a domain whose lower
\* bound is greater than 0, whatever min, max and defaultDomain are
LogDomainPositive ==
    (axisSpec # Undefined /\ axisSpec.scaleType = "log") => Less(Zero, axisSpec.domain[1])

(***************************************************************************)
(* Properties of the AxisBox layout (SpecLayout)                           *)
(***************************************************************************)

\* C13: innerBounds is the outer bounds with the bottom edge moved in by the height
\* of the x axis estimated on the range [0, outer width] and the left edge moved in
\* by the width of the y axis estimated on the range [0, outer height], top and
\* right edges unchanged; the final scales use innerBounds.xRange() and
\* innerBounds.yRange(), and innerBounds is not recomputed from the final axes
InnerBoundsFromEstimates ==
    layout # Undefined =>
        LET outer == layoutProps.bounds
            inner == layout.innerBounds
            heightEstimate == horizontalAxisHeight(layoutProps, <<Zero, outer.width>>)
            widthEstimate == verticalAxisWidth(layoutProps, <<Zero, outer.height>>)
        IN  /\ Bottom(inner) = RSub(Bottom(outer), heightEstimate)
            /\ Left(inner) = RAdd(Left(outer), widthEstimate)
            /\ Top(inner) = Top(outer)
            /\ Right(inner) = Right(outer)
            /\ layout.xRange = <<Left(inner), Right(inner)>>
            /\ layout.yRange = <<Bottom(inner), Top(inner)>>

\* both labels wrap onto a second line on the final ranges, so the final axes are
\* thicker than the estimates innerBounds was padded by
InnerBoundsFromEstimatesWitness ==
    /\ layout # Undefined
    /\ RLt(xAxisHeight(layoutProps), layout.horizontalAxisHeight)
    /\ RLt(yAxisWidth(layoutProps), layout.verticalAxisWidth)
    /\ layout.innerBounds.x # layoutProps.bounds.x

\* the label offset of the final vertical axis: label height + 10 with a label
FinalLabelOffset ==
    IF layoutProps.yLabel.width = 0
    THEN Zero
    ELSE RAdd(wrappedHeight(layoutProps.yLabel, rangeSize(layout.yRange)), Num(10))

MeasuredWidths == {layoutProps.yFormattedTicks[i].width : i \in DOMAIN layoutProps.yFormattedTicks}

\* C14: the width of a vertical axis is the greatest measured width over
\* all formatted tick labels, plus the label offset, plus 5
WidthFitsWidestTick ==
    layout # Undefined =>
        layout.verticalAxisWidth =
            RAdd(RAdd(Num(CHOOSE w \in MeasuredWidths : \A v \in MeasuredWidths : v <= w),
                      FinalLabelOffset),
                 Num(5))

(***************************************************************************)
(* Further properties of the AxisBox animation (Spec)                      *)
(***************************************************************************)
SetupStep == ~reactionActive /\ reactionActive'

\* C15: before setupAnimation has run the current domains are the input domains,
\* uninterpolated; setupAnimation sets animProgress to 1 and leaves the current
\* domains equal to the input domains, whatever the placeholders [1, 100] were
NoTransitionAtSetup ==
    /\ [](~reactionActive =>
             /\ animProgress = Undefined
             /\ currentXDomain = xDomain
             /\ currentYDomain = yDomain)
    /\ [][SetupStep =>
             /\ animProgress' = One
             /\ currentXDomain' = xDomain'
             /\ currentYDomain' = yDomain'
             /\ xDomain' = xDomain
             /\ yDomain' = yDomain]_vars

\* setupAnimation has just run on inputs that differ from the placeholders, which
\* prev still holds
NoTransitionAtSetupWitness ==
    /\ reactionActive
    /\ animProgress = One
    /\ prevXDomain = Dom(1, 100)
    /\ prevYDomain = Dom(1, 100)
    /\ xDomain = Dom(1, 500)
    /\ yDomain = Dom(5, 20)
    /\ changes = 1
    /\ currentXDomain = xDomain
    /\ currentYDomain = yDomain

\* C16: in every reachable state animProgress is undefined or a number in [0, 1]
ProgressInUnitInterval ==
    animProgress = Undefined \/ (RLe(Zero, animProgress) /\ RLe(animProgress, One))

\* a tween part-way after a frame has run, so far from its frameStart that the sum
\* of the next frame exceeds 1 and is cut off by Math.min
ProgressInUnitIntervalWitness ==
    /\ reactionActive
    /\ animProgress # Undefined
    /\ RLt(Zero, animProgress)
    /\ RLt(animProgress, One)
    /\ frameStart # Undefined
    /\ RLt(One, RAdd(animProgress, RDiv(RSub(Num(now), frameStart), Num(AnimationDuration))))

\* C17: a frame callback run while animProgress is defined sets animProgress to
\* min(1, animProgress + (timestamp - frameStart) / 300), where frameStart is first
\* set to the timestamp of the callback if it is unset; it schedules one more frame
\* callback exactly when the new animProgress is below 1, and otherwise clears
\* frameStart and schedules nothing
FrameAdvances ==
    [][(FrameStep /\ animProgress # Undefined) =>
          LET timestamp == now'
              start == IF frameStart = Undefined THEN Rat(timestamp, 1) ELSE frameStart
              sum == RAdd(animProgress, Rat((timestamp * start[2]) - start[1], 300 * start[2]))
              capped == IF RLt(sum, One) THEN sum ELSE One
          IN  /\ animProgress' = capped
              /\ RLt(capped, One) => /\ PendingFrames' = PendingFrames
                                     /\ frameStart' = start
              /\ ~RLt(capped, One) => /\ PendingFrames' = PendingFrames - 1
                                      /\ frameStart' = Undefined
              /\ CountOf(rafQueue', "setupAnimation") + CountOf(running', "setupAnimation")
                     = CountOf(rafQueue, "setupAnimation") + CountOf(running, "setupAnimation")]_vars

\* a second frame of a tween has run: frameStart is kept from the first frame, the
\* progress is below 1 and the next frame callback is scheduled
FrameAdvancesWitness ==
    /\ animProgress # Undefined
    /\ RLt(Zero, animProgress)
    /\ RLt(animProgress, One)
    /\ frameStart # Undefined
    /\ RLt(frameStart, Num(now))
    /\ CountOf(rafQueue, "frame") >= 1

\* the settled state of the AxisBox
Settled ==
    /\ animProgress = One
    /\ PendingFrames = 0
    /\ frameStart = Undefined
    /\ currentXDomain = targetXDomain
    /\ currentYDomain = targetYDomain

\* C18: once the inputs stop changing, a host that keeps running the scheduled
\* frame callbacks brings the AxisBox to the settled state (animProgress = 1, no
\* frame callback pending, frameStart undefined, current domains = targets), and
\* the AxisBox stays settled until the next domain change
EventuallySettled ==
    /\ reactionActive ~> Settled
    /\ [][(Settled /\ ~DomainsChangeWatched) =>
             /\ PendingFrames' = 0
             /\ UNCHANGED <<animProgress, frameStart, prevXDomain, prevYDomain,
                            targetXDomain, targetYDomain, xScaleType, yScaleType>>]_vars

\* settled again after a tween: the inputs changed under the reaction and the
\* frames have brought the rendered domains to the new targets
EventuallySettledWitness ==
    /\ Settled
    /\ reactionActive
    /\ changes = MaxChanges
    /\ prevXDomain # targetXDomain
    /\ currentXDomain = xDomain
    /\ currentYDomain = yDomain

(***************************************************************************)
(* Further properties of the tick collision pass (SpecTicks)               *)
(***************************************************************************)

\* C19: ticks returns exactly the values of the placements that are not hidden
\* after the pass, each as often as it survives, in ascending order of value, and
\* every returned value is the value of a base tick that is not gridLineOnly
TicksAreSortedSurvivors ==
    evals >= 1 =>
        /\ \A i \in 1..(Len(shown) - 1) : RLe(shown[i], shown[i + 1])
        /\ Len(shown) = Cardinality({i \in DOMAIN placements : Shown(i)})
        /\ \A i \in DOMAIN placements :
               Cardinality({k \in DOMAIN shown : shown[k] = placements[i].tick})
                   = Cardinality({k \in DOMAIN placements :
                                     Shown(k) /\ placements[k].tick = placements[i].tick})
        /\ \A k \in DOMAIN shown :
               \E t \in DOMAIN baseTicks(axis) :
                   /\ baseTicks(axis)[t].value = shown[k]
                   /\ ~baseTicks(axis)[t].gridLineOnly

\* survivors whose priority order is not their value order, beside a hidden
\* placement and a gridLineOnly candidate that is not returned
TicksAreSortedSurvivorsWitness ==
    /\ evals >= 1
    /\ Len(shown) >= 2
    /\ \E i \in DOMAIN placements : ~Shown(i)
    /\ \E i, j \in DOMAIN placements :
           i < j /\ Shown(i) /\ Shown(j) /\ RLt(placements[j].tick, placements[i].tick)
    /\ \E c \in DOMAIN axis.tickValues :
           /\ axis.tickValues[c].gridLineOnly
           /\ \A k \in DOMAIN shown : shown[k] # axis.tickValues[c].value

HorizontalPlacements == axis.orient = "horizontal" /\ evals >= 1

\* C20: the horizontal test is the intersection of the two bounds,
\* each shrunk by 5 px on its left and on its right
BothBoundsShrunk ==
    HorizontalPlacements =>
        \A i, j \in DOMAIN placements :
            i # j => (Collide(i, j) <=>
                         Intersects(PadWidth(placements[i].bounds, -5),
                                    PadWidth(placements[j].bounds, -5)))

(***************************************************************************)
(* Properties of the candidates of a horizontal axis (SpecTicks)           *)
(***************************************************************************)

\* C21: the base ticks of a horizontal axis, with the start and end of the domain
\* added, hold no two entries of the same numeric value
BaseTicksDistinctByValue ==
    (axis.orient = "horizontal" /\ evals >= 1) =>
        \A i, j \in DOMAIN baseTicks(axis) :
            baseTicks(axis)[i].value = baseTicks(axis)[j].value => i = j

\* a candidate flagged isFirstOrLastTick for the value v, with the priority of the
\* start and end ticks: 2 on a log axis, 1 on a linear axis
Injected(v) ==
    \E i \in DOMAIN baseTicks(axis) :
        /\ baseTicks(axis)[i].value = v
        /\ baseTicks(axis)[i].isFirstOrLastTick
        /\ baseTicks(axis)[i].priority = (IF axis.scaleType = "log" THEN 2 ELSE 1)

\* C22: on a horizontal axis a candidate flagged isFirstOrLastTick is added for
\* the domain minimum whenever it is whole and for the domain maximum whenever it
\* is whole, with priority 2 on a log axis and 1 on a linear axis
WholeEndsInjected ==
    (axis.orient = "horizontal" /\ evals >= 1) =>
        /\ IsWhole(axis.domain[1]) => Injected(axis.domain[1])
        /\ IsWhole(axis.domain[2]) => Injected(axis.domain[2])

(***************************************************************************)
(* Properties of overlapping tweens (Spec)                                 *)
(***************************************************************************)

\* C23: on linear axes the domains rendered right after a domain change under the
\* reaction (progress back at 0) are the domains rendered right before it,
\* whatever the progress was when the change arrived
\* (the reaction stores the domains rendered before the change in prev, and at
\* progress 0 a linear axis renders prev)
ContinuousAtChange ==
    /\ [][DomainsChangeWatched =>
             /\ animProgress' = Zero
             /\ prevXDomain' = currentXDomain
             /\ prevYDomain' = currentYDomain
             /\ UNCHANGED <<xScaleType, yScaleType>>]_vars
    /\ [](animProgress = Zero =>
             /\ xScaleType = "linear" => currentXDomain = prevXDomain
             /\ yScaleType = "linear" => currentYDomain = prevYDomain)

\* a change has arrived part-way through a tween on two linear axes: prev holds
\* domains strictly between the old prev and the old target
ContinuousAtChangeWitness ==
    /\ reactionActive
    /\ xScaleType = "linear"
    /\ yScaleType = "linear"
    /\ animProgress = Zero
    /\ changes = 2
    /\ currentXDomain = prevXDomain
    /\ currentYDomain = prevYDomain
    /\ prevYDomain \notin YInputDomains
    /\ prevYDomain # Dom(1, 100)

\* a frame callback that is the first to run after a domain change: the progress
\* is still 0 and no frame has set frameStart to the current timestamp
FirstFrameAfterChange ==
    /\ FrameStep
    /\ animProgress = Zero
    /\ frameStart # Num(now)

\* C24: the first frame callback that runs after a domain change leaves
\* animProgress at 0, also when the change arrived while an earlier tween was
\* below progress 1: frameStart is the timestamp of that callback
TweenStartsAtOwnFrame ==
    [][FirstFrameAfterChange => animProgress' = Zero]_vars

\* C25: in every reachable state where no frame callback of the AxisBox is
\* pending, frameStart is undefined, also after overlapping tweens whose frame
\* callbacks interleave
FrameStartOnlyWhilePending ==
    PendingFrames = 0 => frameStart = Undefined

\* two tweens overlapped (a change arrived with frameStart set and progress below
\* 1), all their frame callbacks have run, and frameStart is cleared
FrameStartOnlyWhilePendingWitness ==
    /\ reactionActive
    /\ changes = 2
    /\ PendingFrames = 0
    /\ animProgress = One
    /\ frameStart = Undefined
    /\ prevYDomain \notin YInputDomains
    /\ prevYDomain # Dom(1, 100)

\* C26: the first placement in priority order (lowest priority number, the
\* earliest candidate among equals) is never hidden, so ticks is non-empty
\* whenever at least one candidate is not gridLineOnly, however wide the labels
FirstPlacementSurvives ==
    evals >= 1 =>
        /\ \A i \in 1..Len(placements) : PriorityOf(1) <= PriorityOf(i)
        /\ Len(placements) >= 1 => Shown(1)
        /\ (\E i \in 1..Len(axis.tickValues) : ~axis.tickValues[i].gridLineOnly)
               => /\ shown # <<>>
                  /\ \E k \in 1..Len(shown) : shown[k] = placements[1].tick

\* the labels are so wide that every placement but the first was hidden
FirstPlacementSurvivesWitness ==
    /\ evals >= 1
    /\ Len(placements) >= 3
    /\ Shown(1)
    /\ \A i \in 2..Len(placements) : ~Shown(i)
    /\ Len(shown) = 1

\* C27: every placement hidden by the collision pass intersects, under the
\* intersection test of the axis, a surviving placement that precedes it in the
\* priority-sorted list
HiddenCollidesWithEarlierSurvivor ==
    evals >= 1 =>
        \A j \in 1..Len(placements) :
            ~Shown(j) => \E i \in 1..(j - 1) : Shown(i) /\ Collide(i, j)

\* a placement was hidden although the placement right before it, which it also
\* intersects, is hidden too: an earlier survivor accounts for it
HiddenCollidesWithEarlierSurvivorWitness ==
    /\ evals >= 1
    /\ \E i, j \in 1..Len(placements) :
           /\ i < j
           /\ ~Shown(i)
           /\ ~Shown(j)
           /\ Collide(i, j)
    /\ \E k \in 1..Len(placements) : k >= 2 /\ Shown(k)

\* the value the click of this step produced, wherever it went
ClickedValue ==
    IF hasOnScaleTypeChange THEN onScaleTypeChangeCalls'[Len(onScaleTypeChangeCalls')]
    ELSE IF hasUpdateChartScaleType
    THEN updateChartScaleTypeCalls'[Len(updateChartScaleTypeCalls')]
    ELSE scaleType'

InOptions(type) == \E i \in 1..Len(scaleTypeOptions) : scaleTypeOptions[i] = type

\* C28: with a non-empty scaleTypeOptions the value a click produces is a member
\* of scaleTypeOptions: the first option when the current scale type is not in the
\* list, the same option when the list has one entry; after any number of
\* direct-mutation clicks scaleType is in scaleTypeOptions
ClickStaysInOptions ==
    /\ [][(clicks' = clicks + 1 /\ scaleTypeOptions # <<>>) =>
             /\ \E i \in 1..Len(scaleTypeOptions) : scaleTypeOptions[i] = ClickedValue
             /\ ~InOptions(scaleType) => ClickedValue = scaleTypeOptions[1]
             /\ Len(scaleTypeOptions) = 1 => ClickedValue = scaleTypeOptions[1]]_vars
    /\ []((scaleTypeOptions # <<>> /\ DirectMutation /\ clicks >= 1) => InOptions(scaleType))

\* the selector started on linear with log as its only option: the clicks
\* selected log and stay on it
ClickStaysInOptionsWitness ==
    /\ DirectMutation
    /\ scaleTypeOptions = <<"log">>
    /\ startScaleType = "linear"
    /\ clicks = 2
    /\ scaleType = "log"

(***************************************************************************)
(* Further properties of the AxisRuntime (SpecRuntime)                     *)
(***************************************************************************)
\* a configured bound that the log constraint does not discard
UsableMin(r) == r.min # Undefined /\ (r.scaleType = "log" => RLt(Zero, r.min))

UsableMax(r) == r.max # Undefined /\ (r.scaleType = "log" => RLt(Zero, r.max))

\* a step of toSpec that returned a new AxisSpec or took a new defaultDomain
ToSpecStep ==
    /\ toSpecArg' # Undefined
    /\ runtime' = runtime
    /\ <<toSpecArg', axisSpec'>> # <<toSpecArg, axisSpec>>

\* C29: the domain toSpec returns contains defaultDomain; a usable configured
\* bound enters as min(min, defaultDomain[0]) and max(max, defaultDomain[1]) and
\* so only widens the domain, an unset or discarded bound leaves the bound of
\* defaultDomain as it is; the three versions of toSpec return the same domain
ToSpecContainsDefault ==
    [][ToSpecStep =>
          /\ ~Less(toSpecArg'[1], axisSpec'.domain[1])
          /\ ~Less(axisSpec'.domain[2], toSpecArg'[2])
          /\ axisSpec'.domain[1] =
                 (IF UsableMin(runtime) /\ RLt(runtime.min, toSpecArg'[1])
                  THEN runtime.min ELSE toSpecArg'[1])
          /\ axisSpec'.domain[2] =
                 (IF UsableMax(runtime) /\ RLt(toSpecArg'[2], runtime.max)
                  THEN runtime.max ELSE toSpecArg'[2])
          /\ toSpecCoalescing(runtime, toSpecArg').domain = axisSpec'.domain
          /\ toSpecDefaultTo(runtime, toSpecArg').domain = axisSpec'.domain]_vars

\* a log axis with min 2 and max 0 asked for the default domain [3, 20]: the min
\* widens the domain, the discarded max leaves 20
ToSpecContainsDefaultWitness ==
    /\ runtime.scaleType = "log"
    /\ runtime.min = Num(2)
    /\ runtime.max = Zero
    /\ toSpecArg = <<Num(3), Num(20)>>
    /\ axisSpec # Undefined
    /\ axisSpec.domain = <<Num(2), Num(20)>>

\* a step of isOutsideDomain that took a new value or returned a new answer
OutsideStep ==
    /\ outsideArg' # Undefined
    /\ runtime' = runtime
    /\ <<outsideArg', outside'>> # <<outsideArg, outside>>

\* C30: isOutsideDomain(v) is true exactly when a usable configured bound exists
\* and v lies beyond it; with no min and no max configured, or a bound discarded
\* by the log constraint, it is false for every finite v; the two versions of
\* isOutsideDomain agree
OutsideOnlyBeyondUsableBound ==
    [][OutsideStep =>
          /\ outside' = (\/ UsableMin(runtime) /\ RLt(outsideArg', runtime.min)
                         \/ UsableMax(runtime) /\ RLt(runtime.max, outsideArg'))
          /\ outside' = isOutsideDomainChecked(runtime, outsideArg')]_vars

====
